---- MODULE Spec2Model ----
(***************************************************************************)
(* Workspace Manager: chrome_flow.main() calls close_all_gui_apps() and    *)
(* then open_and_maximize_apps(APPS_TO_OPEN).  Every interaction with the  *)
(* machine is one osascript subprocess run by run_applescript().           *)
(*                                                                         *)
(* Text is modelled as sequences of one-character strings, so that         *)
(* str.strip(), str.split(",") and the `in` substring test are computed.   *)
(***************************************************************************)
EXTENDS Integers, Sequences, FiniteSets, TLC

(* ------------------------------ bounds --------------------------------- *)

\* longest list of running GUI processes the machine reports
MaxRunning == 2

\* longest apps_to_open list handed to open_and_maximize_apps
MaxSpecs == 2

(* ------------------------------- text ---------------------------------- *)

Whitespace == {" ", "\n", "\t", "\r"}

RECURSIVE LStrip(_)
LStrip(s) ==
    IF s # <<>> /\ Head(s) \in Whitespace THEN LStrip(Tail(s)) ELSE s

RECURSIVE RStrip(_)
RStrip(s) ==
    IF s # <<>> /\ s[Len(s)] \in Whitespace
    THEN RStrip(SubSeq(s, 1, Len(s) - 1))
    ELSE s

\* str.strip()
Strip(s) == RStrip(LStrip(s))

\* str.split(sep) for a one-character separator: always at least one field
RECURSIVE SplitFrom(_, _, _)
SplitFrom(s, sep, field) ==
    IF s = <<>> THEN <<field>>
    ELSE IF Head(s) = sep THEN <<field>> \o SplitFrom(Tail(s), sep, <<>>)
    ELSE SplitFrom(Tail(s), sep, Append(field, Head(s)))

Split(s, sep) == SplitFrom(s, sep, <<>>)

\* `needle in hay` for two strings
Contains(needle, hay) ==
    \E i \in 1..(Len(hay) - Len(needle) + 1) :
        SubSeq(hay, i, i + Len(needle) - 1) = needle

\* what osascript prints for an AppleScript list of names: "a, b, c\n"
RECURSIVE JoinNames(_)
JoinNames(names) ==
    IF names = <<>> THEN <<>>
    ELSE IF Len(names) = 1 THEN Head(names)
    ELSE Head(names) \o <<",", " ">> \o JoinNames(Tail(names))

(* ------------------------- names and configuration ---------------------- *)

Terminal == <<"T","e","r","m","i","n","a","l">>
iTerm2 == <<"i","T","e","r","m","2">>
iTerm == <<"i","T","e","r","m">>
Finder == <<"F","i","n","d","e","r">>
SystemUIServer == <<"S","y","s","t","e","m","U","I","S","e","r","v","e","r">>
Chrome == <<"C","h","r","o","m","e">>
GoogleChrome == <<"G","o","o","g","l","e"," ","C","h","r","o","m","e">>
Slack == <<"S","l","a","c","k">>
VSCode == <<"V","S","C","o","d","e">>
Code == <<"C","o","d","e">>

EXCLUDED_APPS == {Terminal, iTerm2, iTerm, Finder, SystemUIServer}

COUNTDOWN_SECONDS == 3

\* (app_name, process_name) pairs of the workflow
APPS_TO_OPEN == << <<GoogleChrome, GoogleChrome>> >>

\* names the machine may report as running GUI processes
ProcessNames == {Chrome, Terminal}

\* AppSpecs the workflows declare, in their order; a workflow's list is
\* APPS_TO_OPEN followed by some more of them
AppSpecs == APPS_TO_OPEN \o << <<Slack, Slack>>, <<VSCode, Code>> >>

Min(a, b) == IF a < b THEN a ELSE b

Workflows == {SubSeq(AppSpecs, 1, n) : n \in 0..Min(MaxSpecs, Len(AppSpecs))}

\* the excluded_apps argument: None (use the default) or an explicit set,
\* which may be empty
None == [is_none |-> TRUE, names |-> {}]
ExcludedArgs == {None, [is_none |-> FALSE, names |-> {}]}

SeqsUpTo(S, n) == UNION {[1..m -> S] : m \in 0..n}

(* --------------------------- run_applescript --------------------------- *)

\* a value returned by run_applescript: a str, or None
NoneValue == [is_none |-> TRUE, str |-> <<>>]
StrValue(s) == [is_none |-> FALSE, str |-> s]

\* Python truthiness of such a value
Truthy(v) == ~v.is_none /\ v.str # <<>>

Line(level, msg, app, n) == [level |-> level, msg |-> msg, app |-> app, n |-> n]

\* a finished osascript subprocess
Proc(rc, stdout) == [rc |-> rc, stdout |-> stdout]

\* variant: the CalledProcessError is not caught and reaches the caller
run_applescript_uncaught(proc) ==
    IF proc.rc = 0
    THEN [raised |-> FALSE, value |-> StrValue(Strip(proc.stdout)), log |-> <<>>]
    ELSE [raised |-> TRUE, value |-> NoneValue, log |-> <<>>]

\* check=True raises CalledProcessError on a non-zero exit status, which is
\* caught, logged and turned into None; nothing is raised to the caller
run_applescript(proc) ==
    IF proc.rc = 0
    THEN [raised |-> FALSE, value |-> StrValue(Strip(proc.stdout)), log |-> <<>>]
    ELSE [raised |-> FALSE, value |-> NoneValue,
          log |-> <<Line("error", "AppleScript error", <<>>, 0)>>]

(* ------------------------------- state --------------------------------- *)

VARIABLES
    pc,             \* position in main / close_all_gui_apps / open_and_maximize_apps
    excluded_arg,   \* the excluded_apps argument of close_all_gui_apps
    apps_to_open,   \* the argument of open_and_maximize_apps
    apps,           \* close_all_gui_apps: result of get_running_gui_apps()
    apps_to_close,  \* close_all_gui_apps: the filtered list
    ticks,          \* countdown values still to be printed
    k,              \* index of the current element of the loop being run
    installed_apps, \* open_and_maximize_apps: specs that passed the check
    attempts,       \* steps tried by the maximize script now running or just ended
    log,            \* lines printed so far
    requests,       \* osascript subprocesses started so far, oldest first
    outcomes,       \* the finished subprocess of each completed request
    cancelled,      \* the KeyboardInterrupt handler of the countdown ran
    exit_status     \* process exit status once pc = "exited", else -1

vars == <<pc, excluded_arg, apps_to_open, apps, apps_to_close, ticks, k,
          installed_apps, attempts, log, requests, outcomes, cancelled, exit_status>>

Request(kind, app) == [kind |-> kind, app |-> app]

Init ==
    /\ pc = "main"
    /\ excluded_arg \in ExcludedArgs
    /\ apps_to_open \in Workflows
    /\ apps = <<>>
    /\ apps_to_close = <<>>
    /\ ticks = <<>>
    /\ k = 1
    /\ installed_apps = <<>>
    /\ attempts = <<>>
    /\ log = <<>>
    /\ requests = <<>>
    /\ outcomes = <<>>
    /\ cancelled = FALSE
    /\ exit_status = -1

\* an exception that reaches the top of main: traceback, exit status 1
Uncaught(request, proc) ==
    /\ pc' = "exited"
    /\ exit_status' = 1
    /\ requests' = Append(requests, request)
    /\ outcomes' = Append(outcomes, proc)
    /\ UNCHANGED <<excluded_arg, apps_to_open, apps, apps_to_close, ticks, k,
                   installed_apps, attempts, log, cancelled>>

(* ------------------------- close_all_gui_apps -------------------------- *)

\* what the list script prints when these GUI processes are running
ListScriptOutput(running) == JoinNames(running) \o <<"\n">>

\* result.split(","), each field stripped; [] when the result is None or ""
get_running_gui_apps(result) ==
    IF Truthy(result)
    THEN LET fields == Split(result.str, ",")
         IN  [j \in 1..Len(fields) |-> Strip(fields[j])]
    ELSE <<>>

\* excluded_apps, with None replaced by the module default
Excluded(arg) == IF arg.is_none THEN EXCLUDED_APPS ELSE arg.names

\* variant: the comprehension without its filter
AppsToClose_unfiltered(list, excluded) == list

\* [app for app in apps if app not in excluded_apps]
RECURSIVE AppsToClose(_, _)
AppsToClose(list, excluded) ==
    IF list = <<>> THEN <<>>
    ELSE IF Head(list) \notin excluded
         THEN <<Head(list)>> \o AppsToClose(Tail(list), excluded)
         ELSE AppsToClose(Tail(list), excluded)

\* variant: the early return is never taken
NothingToClose_never(list) == FALSE

\* `if not apps_to_close`
NothingToClose(list) == list = <<>>

\* variant: range(COUNTDOWN_SECONDS), counting 0, 1, ... upwards
CountdownRange_up == [j \in 1..COUNTDOWN_SECONDS |-> j - 1]

\* range(COUNTDOWN_SECONDS, 0, -1)
CountdownRange == [j \in 1..COUNTDOWN_SECONDS |-> COUNTDOWN_SECONDS - j + 1]

\* main() prints the banner and calls close_all_gui_apps(): enumerate, filter,
\* return at once when nothing is left, else list the apps and enter the countdown
CloseAllGuiApps ==
    /\ pc = "main"
    /\ \E proc \in {Proc(1, <<>>)} \cup {Proc(0, ListScriptOutput(running)) :
                                            running \in SeqsUpTo(ProcessNames, MaxRunning)} :
        LET r == run_applescript(proc)
            got == get_running_gui_apps(r.value)
            todo == AppsToClose(got, Excluded(excluded_arg))
            head == <<Line("print", "Getting list", <<>>, 0)>> \o r.log
        IN  IF r.raised
            THEN Uncaught(Request("list", <<>>), proc)
            ELSE
              /\ requests' = Append(requests, Request("list", <<>>))
              /\ outcomes' = Append(outcomes, proc)
              /\ apps' = got
              /\ apps_to_close' = todo
              /\ IF NothingToClose(todo)
                 THEN /\ log' = log \o head
                                    \o <<Line("print", "No GUI applications to close.", <<>>, 0)>>
                      /\ pc' = "opening"
                      /\ ticks' = ticks
                 ELSE /\ log' = log \o head
                                    \o <<Line("print", "Found", <<>>, Len(todo))>>
                                    \o [j \in 1..Len(todo) |-> Line("info", "-", todo[j], 0)]
                                    \o <<Line("print", "Starting countdown", <<>>,
                                              COUNTDOWN_SECONDS)>>
                      /\ pc' = "countdown"
                      /\ ticks' = CountdownRange
              /\ UNCHANGED <<excluded_arg, apps_to_open, k, installed_apps,
                             attempts, cancelled, exit_status>>

\* one pass of the countdown loop: print(f"{i}..."), time.sleep(1)
CountdownTick ==
    /\ pc = "countdown"
    /\ ticks # <<>>
    /\ log' = Append(log, Line("print", "countdown", <<>>, Head(ticks)))
    /\ ticks' = Tail(ticks)
    /\ UNCHANGED <<pc, excluded_arg, apps_to_open, apps, apps_to_close, k,
                   installed_apps, attempts, requests, outcomes, cancelled, exit_status>>

\* variant: the handler prints its message but does not call sys.exit
KeyboardInterrupt_no_exit ==
    /\ pc = "countdown"
    /\ log' = Append(log, Line("print", "Cancelled by user.", <<>>, 0))
    /\ cancelled' = TRUE
    /\ pc' = "closing"
    /\ k' = 1
    /\ UNCHANGED <<excluded_arg, apps_to_open, apps, apps_to_close, ticks,
                   installed_apps, attempts, requests, outcomes, exit_status>>

\* Ctrl+C inside the try block of the countdown: message, sys.exit(0)
KeyboardInterrupt ==
    /\ pc = "countdown"
    /\ log' = Append(log, Line("print", "Cancelled by user.", <<>>, 0))
    /\ cancelled' = TRUE
    /\ exit_status' = 0
    /\ pc' = "exited"
    /\ UNCHANGED <<excluded_arg, apps_to_open, apps, apps_to_close, ticks, k,
                   installed_apps, attempts, requests, outcomes>>

\* the countdown loop ran out: the closing loop starts
CountdownEnd ==
    /\ pc = "countdown"
    /\ ticks = <<>>
    /\ log' = Append(log, Line("print", "Closing applications...", <<>>, 0))
    /\ pc' = "closing"
    /\ k' = 1
    /\ UNCHANGED <<excluded_arg, apps_to_open, apps, apps_to_close, ticks,
                   installed_apps, attempts, requests, outcomes, cancelled, exit_status>>

\* one pass of the closing loop: quit request, then log_success unless the
\* call raised (in which case the except clause logs the failure)
QuitApp ==
    /\ pc = "closing"
    /\ k <= Len(apps_to_close)
    /\ \E rc \in {0, 1} :
        LET app == apps_to_close[k]
            proc == Proc(rc, <<>>)
            r == run_applescript(proc)
        IN  /\ requests' = Append(requests, Request("quit", app))
            /\ outcomes' = Append(outcomes, proc)
            /\ log' = log \o r.log
                          \o (IF r.raised
                              THEN <<Line("error", "Failed to close", app, 0)>>
                              ELSE <<Line("success", "Closed", app, 0)>>)
    /\ k' = k + 1
    /\ UNCHANGED <<pc, excluded_arg, apps_to_open, apps, apps_to_close, ticks,
                   installed_apps, attempts, cancelled, exit_status>>

\* the closing loop is over: close_all_gui_apps returns to main
CloseDone ==
    /\ pc = "closing"
    /\ k > Len(apps_to_close)
    /\ log' = Append(log, Line("print", "All applications closed.", <<>>, 0))
    /\ pc' = "opening"
    /\ UNCHANGED <<excluded_arg, apps_to_open, apps, apps_to_close, ticks, k,
                   installed_apps, attempts, requests, outcomes, cancelled, exit_status>>

(* ----------------------- open_and_maximize_apps ------------------------ *)

FoundText == <<"f","o","u","n","d">>
NotFoundText == <<"n","o","t"," ","f","o","u","n","d">>

\* what the check script prints: the try block returns "found", its error
\* handler returns "not found"
CheckScriptOutput(installed) ==
    (IF installed THEN FoundText ELSE NotFoundText) \o <<"\n">>

\* `result and "found" in result`
IsInstalled(result) == Truthy(result) /\ Contains(FoundText, result.str)

\* main() calls open_and_maximize_apps(apps_to_open)
OpenAndMaximizeApps ==
    /\ pc = "opening"
    /\ log' = Append(log, Line("print", "Checking installed applications...", <<>>, 0))
    /\ installed_apps' = <<>>
    /\ k' = 1
    /\ pc' = "check"
    /\ UNCHANGED <<excluded_arg, apps_to_open, apps, apps_to_close, ticks,
                   attempts, requests, outcomes, cancelled, exit_status>>

\* one pass of the check loop; the loop has no try block of its own
CheckApp ==
    /\ pc = "check"
    /\ k <= Len(apps_to_open)
    /\ \E proc \in {Proc(0, CheckScriptOutput(TRUE)), Proc(0, CheckScriptOutput(FALSE)),
                    Proc(1, <<>>)} :
        LET spec == apps_to_open[k]
            r == run_applescript(proc)
        IN  IF r.raised
            THEN Uncaught(Request("check", spec[1]), proc)
            ELSE
              /\ requests' = Append(requests, Request("check", spec[1]))
              /\ outcomes' = Append(outcomes, proc)
              /\ IF IsInstalled(r.value)
                 THEN /\ installed_apps' = Append(installed_apps, spec)
                      /\ log' = log \o r.log \o <<Line("success", "found", spec[1], 0)>>
                 ELSE /\ installed_apps' = installed_apps
                      /\ log' = log \o r.log
                                    \o <<Line("error", "not found (skipping)", spec[1], 0)>>
              /\ k' = k + 1
              /\ UNCHANGED <<pc, excluded_arg, apps_to_open, apps, apps_to_close,
                             ticks, attempts, cancelled, exit_status>>

\* the check loop is over: the open loop starts
CheckDone ==
    /\ pc = "check"
    /\ k > Len(apps_to_open)
    /\ log' = Append(log, Line("print", "Opening and maximizing applications...", <<>>, 0))
    /\ pc' = "open"
    /\ k' = 1
    /\ UNCHANGED <<excluded_arg, apps_to_open, apps, apps_to_close, ticks,
                   installed_apps, attempts, requests, outcomes, cancelled, exit_status>>

\* variant: a failed activate abandons the spec
ProceedsToMaximize_if_activated(r) == ~r.raised /\ ~r.value.is_none

\* the statements after the activate call run unless the call raised
ProceedsToMaximize(r) == ~r.raised

\* variant: the window is maximized before the application is activated
OpenRequests_swapped(spec) ==
    <<Request("maximize", spec[2]), Request("activate", spec[1])>>

\* the two osascript calls of one pass of the open loop: activate app_name,
\* then maximize_window(app_name, process_name)
OpenRequests(spec) ==
    <<Request("activate", spec[1]), Request("maximize", spec[2])>>

\* first half of one pass of the open loop: activate request, sleep, then
\* maximize_window() starts the maximize script
Activate ==
    /\ pc = "open"
    /\ k <= Len(installed_apps)
    /\ \E rc \in {0, 1} :
        LET spec == installed_apps[k]
            proc == Proc(rc, <<>>)
            r == run_applescript(proc)
            opening == <<Line("print", "Opening", spec[1], 0)>>
        IN  IF ~ProceedsToMaximize(r)
            THEN /\ requests' = Append(requests, OpenRequests(spec)[1])
                 /\ outcomes' = Append(outcomes, proc)
                 /\ log' = log \o opening \o r.log
                               \o <<Line("error", "Failed to open/maximize", spec[1], 0)>>
                 /\ k' = k + 1
                 /\ UNCHANGED <<pc, attempts>>
            ELSE /\ requests' = requests \o OpenRequests(spec)
                 /\ outcomes' = Append(outcomes, proc)
                 /\ log' = log \o opening \o r.log
                               \o <<Line("print", "Maximizing", spec[1], 0)>>
                 /\ attempts' = <<>>
                 /\ pc' = "frontmost"
                 /\ k' = k
    /\ UNCHANGED <<excluded_arg, apps_to_open, apps, apps_to_close, ticks,
                   installed_apps, cancelled, exit_status>>

\* the maximize script ends with exit status rc: run_applescript returns,
\* maximize_window returns, and the pass of the open loop finishes
ScriptEnd(rc) ==
    LET spec == installed_apps[k]
        proc == Proc(rc, <<>>)
        r == run_applescript(proc)
    IN  /\ outcomes' = Append(outcomes, proc)
        /\ log' = log \o r.log
                      \o (IF r.raised
                          THEN <<Line("error", "Failed to open/maximize", spec[1], 0)>>
                          ELSE <<Line("success", "ready", spec[1], 0)>>)
        /\ k' = k + 1
        /\ pc' = "open"

\* the script goes on to its next statement
ScriptStep(next) ==
    /\ pc' = next
    /\ UNCHANGED <<k, log, outcomes>>

Attempt(step, ok) == [step |-> step, ok |-> ok]

\* `set frontmost to true`, outside every try block of the script
SetFrontmost ==
    /\ pc = "frontmost"
    /\ \E ok \in BOOLEAN : IF ok THEN ScriptStep("exists") ELSE ScriptEnd(1)
    /\ UNCHANGED <<excluded_arg, apps_to_open, apps, apps_to_close, ticks,
                   installed_apps, attempts, requests, cancelled, exit_status>>

\* `if exists window 1`, inside the outer try block
ExistsWindow ==
    /\ pc = "exists"
    /\ \E res \in {"true", "false", "error"} :
        CASE res = "true" -> ScriptStep("fullscreen")
          [] res = "false" -> ScriptEnd(0)
          [] res = "error" -> ScriptStep("zoom")
    /\ UNCHANGED <<excluded_arg, apps_to_open, apps, apps_to_close, ticks,
                   installed_apps, attempts, requests, cancelled, exit_status>>

\* set AXFullScreen, inside the inner try block
Fullscreen ==
    /\ pc = "fullscreen"
    /\ \E ok \in BOOLEAN :
        /\ attempts' = Append(attempts, Attempt("fullscreen", ok))
        /\ IF ok THEN ScriptEnd(0) ELSE ScriptStep("bounds")
    /\ UNCHANGED <<excluded_arg, apps_to_open, apps, apps_to_close, ticks,
                   installed_apps, requests, cancelled, exit_status>>

\* variant: the zoom step follows the bounds-resize step unconditionally
BoundsResize_then_zoom ==
    /\ pc = "bounds"
    /\ \E ok \in BOOLEAN :
        /\ attempts' = Append(attempts, Attempt("bounds-resize", ok))
        /\ ScriptStep("zoom")
    /\ UNCHANGED <<excluded_arg, apps_to_open, apps, apps_to_close, ticks,
                   installed_apps, requests, cancelled, exit_status>>

\* the inner error handler: position and size set to the screen bounds
BoundsResize ==
    /\ pc = "bounds"
    /\ \E ok \in BOOLEAN :
        /\ attempts' = Append(attempts, Attempt("bounds-resize", ok))
        /\ IF ok THEN ScriptEnd(0) ELSE ScriptStep("zoom")
    /\ UNCHANGED <<excluded_arg, apps_to_open, apps, apps_to_close, ticks,
                   installed_apps, requests, cancelled, exit_status>>

\* the outer error handler: set AXZoomButton inside a try with no handler
Zoom ==
    /\ pc = "zoom"
    /\ \E ok \in BOOLEAN :
        /\ attempts' = Append(attempts, Attempt("zoom", ok))
        /\ ScriptEnd(0)
    /\ UNCHANGED <<excluded_arg, apps_to_open, apps, apps_to_close, ticks,
                   installed_apps, requests, cancelled, exit_status>>

\* the open loop is over: open_and_maximize_apps returns, main prints
\* "Done!" and the process ends with status 0
OpenDone ==
    /\ pc = "open"
    /\ k > Len(installed_apps)
    /\ log' = log \o <<Line("print", "Workflow complete!", <<>>, 0),
                       Line("print", "Done!", <<>>, 0)>>
    /\ attempts' = <<>>
    /\ pc' = "exited"
    /\ exit_status' = 0
    /\ UNCHANGED <<excluded_arg, apps_to_open, apps, apps_to_close, ticks, k,
                   installed_apps, requests, outcomes, cancelled>>

(* --------------------------- specification ----------------------------- *)

Next ==
    \/ CloseAllGuiApps
    \/ CountdownTick
    \/ KeyboardInterrupt
    \/ CountdownEnd
    \/ QuitApp
    \/ CloseDone
    \/ OpenAndMaximizeApps
    \/ CheckApp
    \/ CheckDone
    \/ Activate
    \/ SetFrontmost
    \/ ExistsWindow
    \/ Fullscreen
    \/ BoundsResize
    \/ Zoom
    \/ OpenDone

Spec == Init /\ [][Next]_vars

\* the interpreter keeps running the program until the process exits
FairSpec == Spec /\ WF_vars(Next)

(* ------------------------- reading the history ------------------------- *)

OpenPhase == {"opening", "check", "open"}
ScriptPhase == {"frontmost", "exists", "fullscreen", "bounds", "zoom"}

\* the process ended by falling off the end of main
Completed == pc = "exited" /\ ~cancelled /\ exit_status = 0

\* close_all_gui_apps has returned to main
CloseReturned == pc \in OpenPhase \cup ScriptPhase \/ Completed

\* positions in requests of the requests of one kind
IndicesOf(kind) == {j \in 1..Len(requests) : requests[j].kind = kind}

\* the n-th smallest element of a set of positions
Nth(S, n) == CHOOSE j \in S : Cardinality({x \in S : x < j}) = n - 1

\* the application names of the requests of one kind, oldest first
NamesOf(kind) ==
    LET sel == SelectSeq(requests, LAMBDA r : r.kind = kind)
    IN  [n \in 1..Len(sel) |-> sel[n].app]

\* positions in the log of the lines with a given message
LinesWith(msgs) == {j \in 1..Len(log) : log[j].msg \in msgs}

IsPrefix(s, t) == Len(s) <= Len(t) /\ SubSeq(t, 1, Len(s)) = s

\* running minus excluded, in enumeration order
RunningMinusExcluded == SelectSeq(apps, LAMBDA a : a \notin Excluded(excluded_arg))

\* the numbers of the countdown lines printed so far
CountdownLines ==
    LET sel == SelectSeq(log, LAMBDA l : l.msg = "countdown")
    IN  [n \in 1..Len(sel) |-> sel[n].n]

(* ------------------------------- claims -------------------------------- *)

\* C1: a non-cancelled close_all_gui_apps(E) issues quit requests to exactly
\* the elements of the enumerated list R that are not in E, one request per
\* element, in the order of R, and never issues a quit request to a name in E.
C1_QuitsExactlyRunningMinusExcluded ==
    /\ \A j \in IndicesOf("quit") : requests[j].app \notin Excluded(excluded_arg)
    /\ IsPrefix(NamesOf("quit"), RunningMinusExcluded)
    /\ CloseReturned => NamesOf("quit") = RunningMinusExcluded

\* C1 case: the enumeration held an excluded name and a name to close, and
\* the closing loop ran to its end
C1_Witness ==
    /\ CloseReturned
    /\ \E j \in 1..Len(apps) : apps[j] \in Excluded(excluded_arg)
    /\ \E j \in 1..Len(apps) : apps[j] \notin Excluded(excluded_arg)
    /\ IndicesOf("quit") # {}

\* the finished install checks, in the order of apps_to_open
ChecksDone ==
    LET idx == {j \in 1..Len(outcomes) : requests[j].kind = "check"}
    IN  [n \in 1..Cardinality(idx) |-> outcomes[Nth(idx, n)]]

\* the check confirmed the application is installed: the script ran and
\* answered "found"
ConfirmedInstalled(proc) == proc.rc = 0 /\ Strip(proc.stdout) = FoundText

\* position in the log of the verdict line of the j-th check (0 for j = 0:
\* the line that opens the check loop)
VerdictLine(j) ==
    IF j = 0
    THEN Nth(LinesWith({"Checking installed applications..."}), 1)
    ELSE Nth(LinesWith({"found", "not found (skipping)"}), j)

\* C2: activate and maximize requests are issued only for specs whose install
\* check confirmed the application is installed; a spec whose check answers
\* "not found" or fails produces exactly one log line and no such request.
C2_OnlyConfirmedInstalledAreOpened ==
    \A j \in 1..Len(ChecksDone) :
        ~ConfirmedInstalled(ChecksDone[j]) =>
            /\ \A i \in IndicesOf("activate") : requests[i].app # apps_to_open[j][1]
            /\ \A i \in IndicesOf("maximize") : requests[i].app # apps_to_open[j][2]
            /\ VerdictLine(j) - VerdictLine(j - 1) = 1

\* C3: an interrupt at any tick of the countdown leaves no quit request
\* issued, ends the process at once with exit status 0, and the open phase
\* (install checks, activate, maximize) never runs.
C3_CancelStopsEverything ==
    cancelled =>
        /\ pc = "exited"
        /\ exit_status = 0
        /\ {j \in 1..Len(requests) : requests[j].kind # "list"} = {}
        /\ log[Len(log)].msg = "Cancelled by user."
        /\ ~ENABLED Next

\* C3 case: the interrupt came after a countdown line had been printed
C3_Witness == cancelled /\ Len(CountdownLines) >= 1 /\ ticks # <<>>

\* C4: when running minus excluded is empty (also when the enumeration
\* failed and gave the empty list), no countdown tick runs, no quit request
\* is issued, and the call returns normally so the workflow goes on to the
\* open phase.
C4_NothingToCloseSkipsCountdown ==
    /\ (Len(outcomes) >= 1 /\ outcomes[1].rc # 0) => apps = <<>>
    /\ (pc # "main" /\ RunningMinusExcluded = <<>>) =>
            /\ LinesWith({"countdown", "Starting countdown", "Cancelled by user."}) = {}
            /\ IndicesOf("quit") = {}
            /\ CloseReturned
            /\ LinesWith({"No GUI applications to close."}) # {}

\* C4 case: applications are running but all of them are excluded, and the
\* workflow has reached the install checks
C4_Witness ==
    /\ apps # <<>>
    /\ RunningMinusExcluded = <<>>
    /\ IndicesOf("check") # {}

StepOrder == <<"fullscreen", "bounds-resize", "zoom">>

StepRank(step) == CHOOSE n \in 1..Len(StepOrder) : StepOrder[n] = step

AllFailed(att) == \A j \in 1..Len(att) : ~att[j].ok

\* C5: within one maximize_window call the steps are tried in the order
\* fullscreen, bounds-resize, zoom; a later step is tried only if every
\* earlier tried step errored; nothing is tried after a success; and when all
\* three fail the call still returns without raising.
C5_MaximizeFallbackChain ==
    /\ \A j \in 1..Len(attempts) : attempts[j].step \in {"fullscreen", "bounds-resize", "zoom"}
    /\ \A i, j \in 1..Len(attempts) :
            i < j => /\ StepRank(attempts[i].step) < StepRank(attempts[j].step)
                     /\ ~attempts[i].ok
    /\ \A j \in 1..Len(attempts) :
            attempts[j].step = "bounds-resize" => j = 2 /\ attempts[1].step = "fullscreen"
    /\ (Len(attempts) = 3 /\ AllFailed(attempts)) =>
            /\ pc = "open"
            /\ exit_status = -1
            /\ log[Len(log)] = Line("success", "ready", installed_apps[k - 1][1], 0)
            /\ outcomes[Len(outcomes)].rc = 0

\* C5 case: fullscreen, bounds-resize and zoom were all tried and all failed
C5_Witness == Len(attempts) = 3 /\ AllFailed(attempts)

\* number of specs of installed_apps whose pass of the open loop has issued
\* its requests
Opened ==
    IF pc = "open" THEN k - 1
    ELSE IF pc \in ScriptPhase THEN k
    ELSE IF Completed THEN Len(installed_apps)
    ELSE 0

\* C6: a failed activate or maximize step of one installed spec does not
\* keep any later installed spec from being processed: whatever steps fail,
\* every installed spec gets its activate request and its maximize request.
C6_EveryInstalledSpecIsOpened ==
    /\ NamesOf("activate") = [j \in 1..Opened |-> installed_apps[j][1]]
    /\ NamesOf("maximize") = [j \in 1..Opened |-> installed_apps[j][2]]
    /\ Completed => Opened = Len(installed_apps)
    /\ \A j \in 1..Len(ChecksDone) :
            ConfirmedInstalled(ChecksDone[j]) =>
                \E n \in 1..Len(installed_apps) : installed_apps[n] = apps_to_open[j]

\* C6 case: the activate and the maximize step of one spec both failed and a
\* later spec was activated and maximized
C6_Witness ==
    /\ Completed
    /\ \E i \in IndicesOf("activate") :
        /\ outcomes[i].rc # 0
        /\ outcomes[i + 1].rc # 0
        /\ \E j \in IndicesOf("activate") : j > i /\ requests[j + 1].kind = "maximize"

\* what the closing loop prints
ClosingMessages ==
    {"Closing applications...", "AppleScript error", "Closed", "Failed to close"}

\* C7: with at least one application to close and no cancellation, exactly
\* COUNTDOWN_SECONDS countdown lines are logged, counting from
\* COUNTDOWN_SECONDS down to 1, all of them before the first quit request.
C7_CountdownBeforeFirstQuit ==
    /\ Len(CountdownLines) <= COUNTDOWN_SECONDS
    /\ \A n \in 1..Len(CountdownLines) : CountdownLines[n] = COUNTDOWN_SECONDS - n + 1
    /\ (IndicesOf("quit") # {} \/ pc = "closing" \/ (CloseReturned /\ apps_to_close # <<>>))
            => Len(CountdownLines) = COUNTDOWN_SECONDS
    /\ LET order == SelectSeq(log, LAMBDA l : l.msg \in ClosingMessages \cup {"countdown"})
       IN  \A n \in 1..(Len(order) - 1) :
               order[n + 1].msg = "countdown" => order[n].msg = "countdown"

\* C7 case: the countdown ran out uninterrupted and a quit request followed
C7_Witness == ~cancelled /\ IndicesOf("quit") # {} /\ apps_to_close # <<>>

\* C8: unless the countdown is cancelled, the workflow runs to normal
\* completion ("Done!", exit status 0) whatever scripting calls fail in
\* enumeration, quit, install check, activate and maximize.
C8_AlwaysCompletes ==
    /\ <>(pc = "exited")
    /\ [](pc = "exited" /\ ~cancelled =>
            exit_status = 0 /\ log[Len(log)].msg = "Done!")

\* C8 case: a quit, an install check, an activate and a maximize call all
\* failed in one run that ended
C8_Witness ==
    /\ pc = "exited"
    /\ ~cancelled
    /\ \A kind \in {"quit", "check", "activate", "maximize"} :
        \E j \in IndicesOf(kind) : outcomes[j].rc # 0

\* positions in the log of the per-application lines of the closing loop
CloseVerdicts == LinesWith({"Closed", "Failed to close"})

\* C9: in the closing loop the line logged for each application matches the
\* outcome of its own quit request: "Closed <app>" only if the request
\* succeeded, a failure line if it failed, whatever happened to the others.
C9_LoggedOutcomeMatchesQuitOutcome ==
    /\ Cardinality(CloseVerdicts) = Cardinality(IndicesOf("quit"))
    /\ \A n \in 1..Cardinality(IndicesOf("quit")) :
        LET line == log[Nth(CloseVerdicts, n)]
            j == Nth(IndicesOf("quit"), n)
        IN  /\ line.app = requests[j].app
            /\ line.level = "success" <=> outcomes[j].rc = 0
            /\ line.msg = "Failed to close" <=> outcomes[j].rc # 0

KindRank(kind) ==
    CASE kind = "list" -> 0
      [] kind = "quit" -> 1
      [] kind = "check" -> 2
      [] kind \in {"activate", "maximize"} -> 3

OpenRequestsMade == SelectSeq(requests, LAMBDA r : r.kind \in {"activate", "maximize"})

\* C10: the steps of a run are totally ordered: every quit request precedes
\* every install check, every install check precedes the first activate
\* request, and for the installed specs in input order each activate request
\* precedes the spec's own maximize request, which precedes the next spec's
\* activate request.
C10_StepsTotallyOrdered ==
    /\ \A i \in 1..(Len(requests) - 1) :
            KindRank(requests[i].kind) <= KindRank(requests[i + 1].kind)
    /\ \A n \in 1..Len(OpenRequestsMade) :
        LET r == OpenRequestsMade[n]
            spec == installed_apps[(n + 1) \div 2]
        IN  IF n % 2 = 1
            THEN r = Request("activate", spec[1])
            ELSE r = Request("maximize", spec[2])

\* C10 case: a run with a quit request, two install checks and two specs each
\* activated and maximized
C10_Witness ==
    /\ Completed
    /\ IndicesOf("quit") # {}
    /\ Cardinality(IndicesOf("check")) >= 2
    /\ Cardinality(IndicesOf("maximize")) >= 2

====
